---------------------------- MODULE Spec2Model ----------------------------
(***************************************************************************)
(* A model of jqomp's ComponentEngine / Component (src/component_engine.js).*)
(*                                                                         *)
(* The engine and its components are single-threaded JavaScript objects:   *)
(* every public method runs to completion, so each method call is one      *)
(* action.  A method is written as an operator from a state record to a    *)
(* state record (the statements of the method composed in order); the      *)
(* action applies it to the current state.  The callbacks the engine calls *)
(* (guard, init, remove, listeners, action callbacks) are recorded in      *)
(* `trace`, which holds the calls made by the last method call.            *)
(*                                                                         *)
(* The file also holds a later variant of the library (ObservableMixin,    *)
(* Application, Component(opts)); its objects are the variable `app`, and  *)
(* its methods are modelled the same way.                                  *)
(***************************************************************************)
EXTENDS Integers, Sequences, FiniteSets, TLC

VARIABLES
  components,      \* engine.components: the registered components, in property insertion order
  eventListeners,  \* engine.eventListeners: event name -> list of listener functions
  initialized,     \* engine.initialized
  deferredEvents,  \* engine.deferredEvents: list of {event, data}
  enabled,         \* component.enabled
  engine,          \* component.engine is set (TRUE) or undefined (FALSE)
  parent,          \* component.parent
  elements,        \* component.elements is set (TRUE) or undefined (FALSE)
  actions,         \* component.actions: action name -> list of callbacks
  tag,             \* listener.component: the component a listener function is tagged with
  bodyHandlers,    \* number of times the click/change pair was installed on $('body')
  app,             \* the Application object of the file's later variant, and its components
  op,              \* the last method call and its arguments
  trace            \* the callbacks invoked by the last method call, in order

vars == <<components, eventListeners, initialized, deferredEvents, enabled, engine,
          parent, elements, actions, tag, bodyHandlers, app, op, trace>>

(***************************************************************************)
(* Bounds of the model.                                                    *)
(***************************************************************************)
MaxListeners == 2      \* listener registrations held by the engine, all events together
MaxDeferred == 2       \* events dispatched before init()
MaxInits == 2          \* calls of init()
MaxCallbacks == 2      \* callbacks registered under one action name of one component
MaxAppComponents == 2  \* components an Application holds, its three lists together
MaxOn == 2             \* callbacks registered with on(), all objects and events together

Undefined == "undefined"

(***************************************************************************)
(* The component objects the page constructs (new Component(name, options))*)
(* and the DOM they are matched against.                                   *)
(*   Foo   selector '.nope', which matches no element; own guard           *)
(*   Bar   no selector, the prototype's guard, one subcomponent Sub        *)
(*   Sub   subcomponent of Bar, selector matching no element, own guard    *)
(*   Bar2  a second object named "Bar", selector matching two elements,    *)
(*         own guard                                                       *)
(*   N7    a component named "7", no selector, own guard                   *)
(*   Opt   no selector, own guard, options.actions = {save: cbOpt}: the    *)
(*         callback itself, not a list                                     *)
(*   Pub   no selector, the prototype's guard; its init callback           *)
(*         dispatches "ready" with data d1                                 *)
(***************************************************************************)
Comps == {"Foo", "Bar", "Sub", "Bar2", "N7", "Opt", "Pub"}

Name(c) == CASE c = "Bar2" -> "Bar" [] c = "N7" -> "7" [] OTHER -> c

Names == {Name(c) : c \in Comps}

Subcomponents(c) == IF c = "Bar" THEN <<"Sub">> ELSE <<>>

HasSelector(c) == c \in {"Foo", "Sub", "Bar2"}

\* $(component.selector).length in the page's DOM
Matches(c) == IF c = "Bar2" THEN 2 ELSE 0

\* whether options.guard replaces Component.prototype.guard
OwnGuard(c) == c \in {"Foo", "Sub", "Bar2", "N7", "Opt"}

\* options.actions[name], which the constructor copies over this.actions
OptionAction(c, name) == IF c = "Opt" /\ name = "save" THEN "cbOpt" ELSE Undefined

Events == {"ready", "other"}
Data == {"d1", "d2"}
Listeners == {"l1", "l2", "l3"}
\* a listener whose body is `engine.removeEventListener(event, itself)`
SelfRemoving == {"once"}
ActionNames == {"save", "length"}
Callbacks == {"cb1", "cb2"}

\* The component whose code registers listener l through Component.addEventListener.
Registrar(l) == IF l = "l3" THEN "Sub" ELSE "Bar"

(***************************************************************************)
(* Guard results.  A guard is a predicate over the engine supplied by the  *)
(* page; what it returns in one method call is an input of that call.  The *)
(* prototype's guard returns true.                                         *)
(***************************************************************************)
Component_guard(c, g) == IF OwnGuard(c) THEN g[c] ELSE TRUE

GuardResults == {g \in [Comps -> BOOLEAN] : \A c \in Comps : ~OwnGuard(c) => g[c]}

AllTrue == [c \in Comps |-> TRUE]

(***************************************************************************)
(* Helpers.                                                                *)
(***************************************************************************)
Call(k, c, a, d) == [k |-> k, c |-> c, a |-> a, d |-> d]

Log(s, k, c, a, d) == [s EXCEPT !.trace = Append(@, Call(k, c, a, d))]

BoolStr(b) == IF b THEN "true" ELSE "false"

\* Array.prototype.splice(i, 1) with a 1-based position i inside the list
RemoveAt(list, i) == SubSeq(list, 1, i - 1) \o SubSeq(list, i + 1, Len(list))

\* Array.prototype.indexOf, 1-based; 0 stands for JavaScript's -1
IndexOf(list, x) ==
  IF \E i \in 1..Len(list) : list[i] = x
  THEN CHOOSE i \in 1..Len(list) : list[i] = x /\ \A j \in 1..(i - 1) : list[j] # x
  ELSE 0

\* list.splice(list.indexOf(x), 1): a start of -1 counts from the end of the list
SpliceIndexOf(list, x) ==
  IF Len(list) = 0 THEN list
  ELSE IF IndexOf(list, x) = 0 THEN RemoveAt(list, Len(list))
  ELSE RemoveAt(list, IndexOf(list, x))

\* The value of a property name that is an array index ("7" -> 7), else -1.
ArrayIndex(name) == IF name = "7" THEN 7 ELSE -1

RECURSIVE InsertByIndex(_, _)
InsertByIndex(sorted, c) ==
  IF sorted = <<>> THEN <<c>>
  ELSE IF ArrayIndex(Name(c)) < ArrayIndex(Name(Head(sorted))) THEN <<c>> \o sorted
  ELSE <<Head(sorted)>> \o InsertByIndex(Tail(sorted), c)

RECURSIVE SortByIndex(_)
SortByIndex(list) ==
  IF list = <<>> THEN <<>> ELSE InsertByIndex(SortByIndex(Tail(list)), Head(list))

\* for (var c in this.components): array-index names first, ascending, then
\* the other names in insertion order.
ForIn(list) ==
  SortByIndex(SelectSeq(list, LAMBDA c : ArrayIndex(Name(c)) >= 0))
    \o SelectSeq(list, LAMBDA c : ArrayIndex(Name(c)) < 0)

Registered(s) == {s.components[i] : i \in 1..Len(s.components)}

\* this.components[name]
Lookup(s, name) ==
  IF \E c \in Registered(s) : Name(c) = name
  THEN CHOOSE c \in Registered(s) : Name(c) = name
  ELSE Undefined

\* String(component) for a Component object, the key of `delete this.components[component]`
ToPropertyKey(c) == "[object Object]"

DeleteKey(list, key) == SelectSeq(list, LAMBDA c : Name(c) # key)

(***************************************************************************)
(* Component                                                               *)
(***************************************************************************)
\* Component.prototype.tryToSetElements: the state after the call
Component_tryToSetElements(s, c) ==
  IF Matches(c) > 0 THEN [s EXCEPT !.elements[c] = TRUE] ELSE s

\* a changed tryToSetElements that returns !!elements: a jQuery object is always truthy
TryToSetElementsResult_Truthy(c) == TRUE

\* Component.prototype.tryToSetElements: the value returned
TryToSetElementsResult(c) == Matches(c) # 0

(***************************************************************************)
(* The event bus                                                           *)
(***************************************************************************)
\* ComponentEngine.prototype.addEventListener.  An event name without a list
\* and one with an empty list behave alike in every method, so both are <<>>.
ComponentEngine_addEventListener(s, event, l) ==
  [s EXCEPT !.eventListeners[event] = Append(@, l)]

\* ComponentEngine.prototype.removeEventListener
ComponentEngine_removeEventListener(s, event, l) ==
  [s EXCEPT !.eventListeners[event] = SpliceIndexOf(@, l)]

\* a listener function called with the event's data; a self-removing listener
\* takes itself off the event's list while it runs
Listener_call(s, l, event, data) ==
  LET s1 == Log(s, "listener", l, event, data)
  IN IF l \in SelfRemoving THEN ComponentEngine_removeEventListener(s1, event, l) ELSE s1

RECURSIVE DispatchLoop(_, _, _, _)
\* the loop of dispatchEvent, which reads listeners.length before every step
DispatchLoop(s, event, data, i) ==
  IF i > Len(s.eventListeners[event]) THEN s
  ELSE DispatchLoop(Listener_call(s, s.eventListeners[event][i], event, data),
                    event, data, i + 1)

\* a changed dispatchEvent that does not look at this.initialized
ComponentEngine_dispatchEvent_NoDefer(s, event, data) == DispatchLoop(s, event, data, 1)

\* ComponentEngine.prototype.dispatchEvent
ComponentEngine_dispatchEvent(s, event, data) ==
  IF s.initialized
  THEN DispatchLoop(s, event, data, 1)
  ELSE [s EXCEPT !.deferredEvents = Append(@, [event |-> event, data |-> data])]

\* Component.prototype.dispatchEvent (throws when the component has no engine)
Component_dispatchEvent(s, c, event, data) ==
  IF s.engine[c] THEN ComponentEngine_dispatchEvent(s, event, data) ELSE s

\* The event and data a component's init callback dispatches with
\* this.dispatchEvent, as <<event, data>>; <<>> for a callback that dispatches
\* nothing.
InitDispatch(c) == IF c = "Pub" THEN <<"ready", "d1">> ELSE <<>>

(***************************************************************************)
(* Component: the page's callbacks                                         *)
(***************************************************************************)
\* component.init(engine): the page's callback, or the prototype's warning
Component_init(s, c) ==
  LET s1 == Log(s, "init", c, "", "")
  IN IF InitDispatch(c) = <<>> THEN s1
     ELSE Component_dispatchEvent(s1, c, InitDispatch(c)[1], InitDispatch(c)[2])

\* component.remove(engine): the page's callback, or the prototype's warning
Component_remove(s, c) == Log(s, "remove", c, "", "")

\* one evaluation of component.guard(engine)
GuardCall(s, c, g) == Log(s, "guard", c, "", BoolStr(Component_guard(c, g)))

(***************************************************************************)
(* ComponentEngine                                                         *)
(***************************************************************************)
RECURSIVE ComponentEngine_initComponent(_, _, _)
RECURSIVE InitSubcomponents(_, _, _, _)

\* the loop of _initComponent over component.subcomponents, from position i
InitSubcomponents(s, c, i, g) ==
  IF i > Len(Subcomponents(c)) THEN s
  ELSE LET sub == Subcomponents(c)[i]
           s1 == GuardCall(s, sub, g)
       IN IF Component_guard(sub, g)
          THEN InitSubcomponents(
                 ComponentEngine_initComponent([s1 EXCEPT !.parent[sub] = c], sub, g),
                 c, i + 1, g)
          ELSE InitSubcomponents(s1, c, i + 1, g)

\* a changed _initComponent that leaves out `component.enabled = true`
ComponentEngine_initComponent_NoEnable(s, c, g) ==
  LET s1 == [s EXCEPT !.engine[c] = TRUE]
      s2 == Component_init(s1, c)
  IN InitSubcomponents(s2, c, 1, g)

\* ComponentEngine.prototype._initComponent
ComponentEngine_initComponent(s, c, g) ==
  LET s1 == [s EXCEPT !.engine[c] = TRUE]
      s2 == Component_init(s1, c)
      s3 == [s2 EXCEPT !.enabled[c] = TRUE]
  IN InitSubcomponents(s3, c, 1, g)

RECURSIVE InitLoop(_, _, _, _)
\* the first loop of init over the keys of this.components
InitLoop(s, keys, i, g) ==
  IF i > Len(keys) THEN s
  ELSE LET c == keys[i]
           sel == IF HasSelector(c) THEN TryToSetElementsResult(c) ELSE TRUE
           s1 == IF HasSelector(c) THEN Component_tryToSetElements(s, c) ELSE s
           s2 == IF sel THEN GuardCall(s1, c, g) ELSE s1
       IN IF sel /\ Component_guard(c, g)
          THEN InitLoop(ComponentEngine_initComponent(s2, c, g), keys, i + 1, g)
          ELSE InitLoop(s2, keys, i + 1, g)

RECURSIVE FlushLoop(_, _)
\* the second loop of init over the indices of this.deferredEvents
FlushLoop(s, i) ==
  IF i > Len(s.deferredEvents) THEN s
  ELSE FlushLoop(
         ComponentEngine_dispatchEvent(s, s.deferredEvents[i].event, s.deferredEvents[i].data),
         i + 1)

\* a changed init that leaves out `this.deferredEvents.length = 0`
ComponentEngine_init_NoClear(s, g) ==
  LET s1 == InitLoop(s, ForIn(s.components), 1, g)
      s2 == [s1 EXCEPT !.initialized = TRUE]
      s3 == FlushLoop(s2, 1)
      s5 == Log(s3, "on", "body", "", "")
  IN [s5 EXCEPT !.bodyHandlers = @ + 1]

\* ComponentEngine.prototype.init
ComponentEngine_init(s, g) ==
  LET s1 == InitLoop(s, ForIn(s.components), 1, g)
      s2 == [s1 EXCEPT !.initialized = TRUE]
      s3 == FlushLoop(s2, 1)
      s4 == [s3 EXCEPT !.deferredEvents = <<>>]
      s5 == Log(s4, "on", "body", "", "")
  IN [s5 EXCEPT !.bodyHandlers = @ + 1]

\* the name getComponent reads from its argument, a name or a component
NameOf(ref) == IF ref \in Comps THEN Name(ref) ELSE ref

\* ComponentEngine.prototype.getComponent
ComponentEngine_getComponent(s, ref) == Lookup(s, NameOf(ref))

\* a changed addComponent without the check for an existing name
ComponentEngine_addComponent_NoCheck(s, c, g) ==
  LET s1 == IF s.initialized THEN GuardCall(s, c, g) ELSE s
      s2 == IF s.initialized /\ Component_guard(c, g)
            THEN ComponentEngine_initComponent(s1, c, g)
            ELSE s1
  IN [s2 EXCEPT !.components = Append(SelectSeq(@, LAMBDA x : Name(x) # Name(c)), c)]

\* ComponentEngine.prototype.addComponent
ComponentEngine_addComponent(s, c, g) ==
  IF Lookup(s, Name(c)) # Undefined THEN s
  ELSE LET s1 == IF s.initialized THEN GuardCall(s, c, g) ELSE s
           s2 == IF s.initialized /\ Component_guard(c, g)
                 THEN ComponentEngine_initComponent(s1, c, g)
                 ELSE s1
       IN [s2 EXCEPT !.components = Append(@, c)]

RECURSIVE PurgeLoop(_, _, _, _)
\* the inner loop of disableComponent over one listener list, from position i:
\* after splice(i, 1) the loop still advances i
PurgeLoop(list, c, tags, i) ==
  IF i > Len(list) THEN list
  ELSE IF tags[list[i]] = c THEN PurgeLoop(RemoveAt(list, i), c, tags, i + 1)
  ELSE PurgeLoop(list, c, tags, i + 1)

\* ComponentEngine.prototype.disableComponent, for a reference getComponent resolves
ComponentEngine_disableComponent(s, ref) ==
  LET c == ComponentEngine_getComponent(s, ref)
  IN IF s.enabled[c]
     THEN LET s1 == Component_remove(s, c)
              s2 == [s1 EXCEPT !.enabled[c] = FALSE]
          IN [s2 EXCEPT !.eventListeners =
                 [e \in Events |-> PurgeLoop(s2.eventListeners[e], c, s2.tag, 1)]]
     ELSE s

\* ComponentEngine.prototype.enableComponent, for a reference getComponent resolves
ComponentEngine_enableComponent(s, ref, g) ==
  LET c == ComponentEngine_getComponent(s, ref)
  IN IF ~s.enabled[c] THEN ComponentEngine_initComponent(s, c, g) ELSE s

\* ComponentEngine.prototype.removeComponent, for a reference getComponent resolves
ComponentEngine_removeComponent(s, ref) ==
  LET c == ComponentEngine_getComponent(s, ref)
      s1 == ComponentEngine_disableComponent(s, c)
      s2 == [s1 EXCEPT !.engine[c] = FALSE]
  IN [s2 EXCEPT !.components = DeleteKey(@, ToPropertyKey(c))]

(***************************************************************************)
(* Component: events and actions                                           *)
(***************************************************************************)
\* Component.prototype.addEventListener: the listener is tagged first; the call
\* on this.engine throws when the component has no engine yet
Component_addEventListener(s, c, event, l) ==
  LET s1 == [s EXCEPT !.tag[l] = c]
  IN IF s1.engine[c] THEN ComponentEngine_addEventListener(s1, event, l) ELSE s1

\* Component.prototype.removeEventListener (throws when the component has no engine)
Component_removeEventListener(s, c, event, l) ==
  IF s.engine[c] THEN ComponentEngine_removeEventListener(s, event, l) ELSE s

\* Component.prototype.addAction: `push` on an entry that is a function throws
Component_addAction(s, c, name, cb) ==
  IF OptionAction(c, name) # Undefined THEN s
  ELSE [s EXCEPT !.actions[c][name] = Append(@, cb)]

\* Array.isArray(this.actions[key])
IsActionList(s, c, key) == key \in ActionNames /\ s.actions[c][key] # <<>>

\* What the free identifier `event` in removeAction converts to as a property
\* key: window.event, undefined outside of a DOM event handler and the event
\* object inside one.
GlobalEventKeys == {Undefined, "[object MouseEvent]"}

\* Component.prototype.removeAction, with the key `event` converts to
Component_removeAction(s, c, name, cb, key) ==
  IF ~IsActionList(s, c, key) THEN s
  ELSE [s EXCEPT !.actions[c][name] = SpliceIndexOf(@, cb)]

\* this.actions.hasOwnProperty(name): addAction creates the list it pushes to
HasOwnAction(s, c, name) == s.actions[c][name] # <<>> \/ OptionAction(c, name) # Undefined

\* The value of `this.actions.length`: actions is a plain object, so this is
\* the property named "length" (a callback list, if one was added under that
\* name) or undefined.  Neither is a number: an array of functions converts
\* to NaN.
ActionsLength(s, c) ==
  IF HasOwnAction(s, c, "length")
  THEN [isNumber |-> FALSE, val |-> 0, js |-> "NaN"]
  ELSE [isNumber |-> FALSE, val |-> 0, js |-> Undefined]

\* JavaScript's i < x for a number i: false when x converts to NaN
JsLess(i, x) == x.isNumber /\ i < x.val

\* an action callback applied to the element with the component as argument
Callback_apply(s, c, name, cb) == Log(s, "action", c, name, cb)

RECURSIVE ActionLoop(_, _, _, _)
\* the loop of executeAction over this.actions[name], from 0-based position i
ActionLoop(s, c, name, i) ==
  IF ~JsLess(i, ActionsLength(s, c)) THEN s
  ELSE ActionLoop(Callback_apply(s, c, name, s.actions[c][name][i + 1]), c, name, i + 1)

RECURSIVE Component_executeAction(_, _, _)
RECURSIVE ExecuteSubcomponents(_, _, _, _)

\* the second loop of executeAction over this.subcomponents, from position i
ExecuteSubcomponents(s, c, name, i) ==
  IF i > Len(Subcomponents(c)) THEN s
  ELSE ExecuteSubcomponents(Component_executeAction(s, Subcomponents(c)[i], name),
                            c, name, i + 1)

\* Component.prototype.executeAction.  An entry of this.actions is a list made
\* by addAction or a function passed in options.actions.
Component_executeAction(s, c, name) ==
  LET s1 == Log(s, "executeAction", c, name, "")
      s2 == IF ~HasOwnAction(s1, c, name) THEN s1
            ELSE IF OptionAction(c, name) = Undefined THEN ActionLoop(s1, c, name, 0)
            ELSE Callback_apply(s1, c, name, OptionAction(c, name))
  IN ExecuteSubcomponents(s2, c, name, 1)

RECURSIVE ActionHandlerLoop(_, _, _, _)
\* the loop of actionHandler over the keys of self.components
ActionHandlerLoop(s, keys, name, i) ==
  IF i > Len(keys) THEN s
  ELSE ActionHandlerLoop(Component_executeAction(s, keys[i], name), keys, name, i + 1)

\* actionHandler, the delegated listener init installs on $('body')
actionHandler(s, name) == ActionHandlerLoop(s, ForIn(s.components), name, 1)

RECURSIVE FireHandlers(_, _, _)
\* one DOM event on an element with data-action=name: every installed
\* handler of that event type runs, in the order of installation
FireHandlers(s, name, n) ==
  IF n = 0 THEN s ELSE FireHandlers(actionHandler(s, name), name, n - 1)

(***************************************************************************)
(* The Application variant (ObservableMixin, Application, Component(opts)).*)
(* Its operators work on a record a with the fields of `app`, the trace    *)
(* and `thrown`, which is set when a statement has thrown: the statements  *)
(* after it do not run.                                                    *)
(*   Menu   selector matching one element, own guard                       *)
(*   Tabs   selector matching one element, the constructor's guard         *)
(*   Gone   selector matching no element                                   *)
(*   Bare   no selector                                                    *)
(***************************************************************************)
AppComps == {"Menu", "Tabs", "Gone", "Bare"}

\* names getComponent is asked for: those of the components and one nobody has
AppNames == AppComps \cup {"Nope"}

\* the objects that carry the mixin: the components and the application
Observables == AppComps \cup {"app"}

\* opts.name
AppName(c) == c

AppHasSelector(c) == c # "Bare"

\* $(this.selector).length
AppMatches(c) == IF c \in {"Menu", "Tabs"} THEN 1 ELSE 0

\* this.guard(): opts.guard of Menu returns gm, the constructor's guard true
AppComponent_guard(c, gm) == IF c = "Menu" THEN gm ELSE TRUE

Throw(a, c, what) == Log([a EXCEPT !.thrown = TRUE], "throw", c, what, "")

Thrown(tr) == \E i \in 1..Len(tr) : tr[i].k = "throw"

\* Component.prototype._prepare
AppComponent_prepare(a, c) ==
  IF ~AppHasSelector(c) THEN Throw(a, c, "A selector is not provided")
  ELSE [a EXCEPT !.element[c] = TRUE, !.parent[c] = TRUE]

\* Component.prototype._reset
AppComponent_reset(a, c) == [a EXCEPT !.element[c] = FALSE, !.parent[c] = FALSE]

\* Component.prototype._shouldInitialize
AppComponent_shouldInitialize(a, c, gm) == AppComponent_guard(c, gm) /\ AppMatches(c) > 0

\* component.init(app): the callback passed in opts, or the constructor's warning
AppComponent_init(a, c) == Log(a, "init", c, "", "")

RECURSIVE ApplicationInitLoop(_, _, _)
\* the loop of Application.prototype.init over this.uninitComponents, from position i
ApplicationInitLoop(a, i, gm) ==
  IF a.thrown \/ i > Len(a.uninitComponents) THEN a
  ELSE LET c == a.uninitComponents[i]
           a1 == AppComponent_prepare(a, c)
       IN IF a1.thrown THEN a1
          ELSE IF AppComponent_shouldInitialize(a1, c, gm)
          THEN ApplicationInitLoop(
                 [AppComponent_init(a1, c) EXCEPT !.components = Append(@, c)], i + 1, gm)
          ELSE ApplicationInitLoop(
                 [AppComponent_reset(a1, c) EXCEPT !.inactiveComponents = Append(@, c)],
                 i + 1, gm)

\* Application.prototype.init
Application_init(a, gm) ==
  LET a1 == ApplicationInitLoop(a, 1, gm)
  IN IF a1.thrown THEN a1 ELSE [a1 EXCEPT !.uninitComponents = <<>>]

RECURSIVE ApplicationResetLoop(_, _, _)
ApplicationResetLoop(a, list, i) ==
  IF i > Len(list) THEN a
  ELSE ApplicationResetLoop(AppComponent_reset(a, list[i]), list, i + 1)

\* Application.prototype.reset
Application_reset(a) ==
  LET list == a.components \o a.inactiveComponents
      a1 == [a EXCEPT !.uninitComponents = list, !.components = <<>>,
                      !.inactiveComponents = <<>>]
      a2 == ApplicationResetLoop(a1, list, 1)
  IN [a2 EXCEPT !.initialized = FALSE]

\* Application.prototype.addComponent
Application_addComponent(a, c, gm) ==
  IF a.initialized
  THEN LET a1 == AppComponent_prepare(a, c)
       IN IF a1.thrown THEN a1
          ELSE IF AppComponent_shouldInitialize(a1, c, gm)
          THEN [AppComponent_init(a1, c) EXCEPT !.components = Append(@, c)]
          ELSE AppComponent_reset(a1, c)
  ELSE [a EXCEPT !.uninitComponents = Append(@, c)]

\* Application.prototype.component: c is the object `new Component(opts)` makes
Application_component(a, c, gm) == Application_addComponent(a, c, gm)

RECURSIVE GetComponentLoop(_, _, _)
\* the loop of getComponent from 0-based iComp: it goes on while
\* components.length is not 0, and components[iComp].name throws past the end
GetComponentLoop(a, name, iComp) ==
  IF Len(a.components) = 0 THEN Log(a, "return", Undefined, name, "")
  ELSE IF iComp >= Len(a.components) THEN Throw(a, "", "TypeError")
  ELSE IF AppName(a.components[iComp + 1]) = name
       THEN Log(a, "return", a.components[iComp + 1], name, "")
       ELSE GetComponentLoop(a, name, iComp + 1)

\* Application.prototype.getComponent; what it returns is the trace's entry
Application_getComponent(a, name) == GetComponentLoop(a, name, 0)

\* ObservableMixin.on
Observable_on(a, o, event, cb) == [a EXCEPT !._eventCallbacks[o][event] = Append(@, cb)]

\* ObservableMixin.off
Observable_off(a, o, event, cb) ==
  IF IndexOf(a._eventCallbacks[o][event], cb) > 0
  THEN [a EXCEPT !._eventCallbacks[o][event] = RemoveAt(@, IndexOf(@, cb))]
  ELSE a

\* a callback registered with on(), called with the data
EventCallback_call(a, o, event, cb, data) ==
  [a EXCEPT !.trace = Append(@, [k |-> "callback", c |-> cb, a |-> event, d |-> data, o |-> o])]

RECURSIVE TriggerLoop(_, _, _, _, _, _)
\* the loop of trigger from 0-based iCallback up to len, read once before the loop
TriggerLoop(a, o, event, data, iCallback, len) ==
  IF iCallback >= len THEN a
  ELSE TriggerLoop(EventCallback_call(a, o, event, a._eventCallbacks[o][event][iCallback + 1], data),
                   o, event, data, iCallback + 1, len)

\* whether this.parent is set: _prepare sets a component's, nothing sets the application's
HasParent(a, o) == o \in AppComps /\ a.parent[o]

\* a changed trigger that does not call this.parent.trigger
Observable_trigger_NoForward(a, o, event, data) ==
  TriggerLoop(a, o, event, data, 0, Len(a._eventCallbacks[o][event]))

RECURSIVE Observable_trigger(_, _, _, _)
\* ObservableMixin.trigger
Observable_trigger(a, o, event, data) ==
  LET a1 == TriggerLoop(a, o, event, data, 0, Len(a._eventCallbacks[o][event]))
  IN IF HasParent(a1, o) THEN Observable_trigger(a1, "app", event, data) ELSE a1

(***************************************************************************)
(* The state machine                                                       *)
(***************************************************************************)
Cur ==
  [components |-> components, eventListeners |-> eventListeners,
   initialized |-> initialized, deferredEvents |-> deferredEvents,
   enabled |-> enabled, engine |-> engine, parent |-> parent,
   elements |-> elements, actions |-> actions, tag |-> tag,
   bodyHandlers |-> bodyHandlers, trace |-> <<>>]

Op(name, c, a, d, g) == [name |-> name, c |-> c, a |-> a, d |-> d, g |-> g]

Apply(s, o) ==
  /\ components' = s.components
  /\ eventListeners' = s.eventListeners
  /\ initialized' = s.initialized
  /\ deferredEvents' = s.deferredEvents
  /\ enabled' = s.enabled
  /\ engine' = s.engine
  /\ parent' = s.parent
  /\ elements' = s.elements
  /\ actions' = s.actions
  /\ tag' = s.tag
  /\ bodyHandlers' = s.bodyHandlers
  /\ app' = app
  /\ trace' = s.trace
  /\ op' = o

\* the state after `new ComponentEngine()` and the `new Component(...)` calls
Init ==
  /\ components = <<>>
  /\ eventListeners = [e \in Events |-> <<>>]
  /\ initialized = FALSE
  /\ deferredEvents = <<>>
  /\ enabled = [c \in Comps |-> FALSE]
  /\ engine = [c \in Comps |-> FALSE]
  /\ parent = [c \in Comps |-> Undefined]
  /\ elements = [c \in Comps |-> FALSE]
  /\ actions = [c \in Comps |-> [n \in ActionNames |-> <<>>]]
  /\ tag = [l \in Listeners \cup SelfRemoving |-> Undefined]
  /\ bodyHandlers = 0
  /\ app = [components |-> <<>>, uninitComponents |-> <<>>, inactiveComponents |-> <<>>,
            initialized |-> FALSE,
            element |-> [c \in AppComps |-> FALSE],
            parent |-> [c \in AppComps |-> FALSE],
            _eventCallbacks |-> [o \in Observables |-> [e \in Events |-> <<>>]]]
  /\ op = Op("new", "", "", "", AllTrue)
  /\ trace = <<>>

\* the Application and its components, as one method call finds them
AppCur ==
  [components |-> app.components, uninitComponents |-> app.uninitComponents,
   inactiveComponents |-> app.inactiveComponents, initialized |-> app.initialized,
   element |-> app.element, parent |-> app.parent,
   _eventCallbacks |-> app._eventCallbacks, trace |-> <<>>, thrown |-> FALSE]

\* one method call o on the Application or one of its objects, leaving them as a
AppApply(a, o) ==
  /\ app' = [components |-> a.components, uninitComponents |-> a.uninitComponents,
             inactiveComponents |-> a.inactiveComponents, initialized |-> a.initialized,
             element |-> a.element, parent |-> a.parent,
             _eventCallbacks |-> a._eventCallbacks]
  /\ trace' = a.trace
  /\ op' = o
  /\ UNCHANGED <<components, eventListeners, initialized, deferredEvents, enabled, engine,
                 parent, elements, actions, tag, bodyHandlers>>

IsDomEvent(name) == name \in {"click", "change"}

ListenerCount == Len(eventListeners["ready"]) + Len(eventListeners["other"])

\* a component and its subcomponents, at any depth
RECURSIVE Tree(_)
Tree(c) ==
  {c} \cup UNION {Tree(Subcomponents(c)[i]) : i \in 1..Len(Subcomponents(c))}

\* g gives a result only for guards of the components in S: a guard that
\* cannot be called in a method call has no result in it
GuardsOnlyOf(g, S) == \A c \in Comps \ S : g[c]

CallInit(g) ==
  /\ bodyHandlers < MaxInits
  /\ GuardsOnlyOf(g, UNION {Tree(c) : c \in Registered(Cur)})
  /\ Apply(ComponentEngine_init(Cur, g), Op("init", "", "", "", g))

CallAddComponent(c, g) ==
  /\ GuardsOnlyOf(g, Tree(c))
  /\ Apply(ComponentEngine_addComponent(Cur, c, g), Op("addComponent", c, "", "", g))

\* enable/disable/removeComponent of a name that is not registered throws
\* before it changes anything
CallEnableComponent(name, g) ==
  /\ Lookup(Cur, name) # Undefined
  /\ GuardsOnlyOf(g, Tree(Lookup(Cur, name)))
  /\ Apply(ComponentEngine_enableComponent(Cur, name, g),
           Op("enableComponent", Lookup(Cur, name), "", "", g))

CallDisableComponent(name) ==
  /\ Lookup(Cur, name) # Undefined
  /\ Apply(ComponentEngine_disableComponent(Cur, name),
           Op("disableComponent", Lookup(Cur, name), "", "", AllTrue))

CallRemoveComponent(name) ==
  /\ Lookup(Cur, name) # Undefined
  /\ Apply(ComponentEngine_removeComponent(Cur, name),
           Op("removeComponent", Lookup(Cur, name), "", "", AllTrue))

CallAddEventListener(event, l) ==
  /\ ListenerCount < MaxListeners
  /\ Apply(ComponentEngine_addEventListener(Cur, event, l),
           Op("addEventListener", "", event, l, AllTrue))

CallRemoveEventListener(event, l) ==
  /\ event \in Events
  /\ Apply(ComponentEngine_removeEventListener(Cur, event, l),
           Op("removeEventListener", "", event, l, AllTrue))

CallDispatchEvent(event, data) ==
  /\ initialized \/ Len(deferredEvents) < MaxDeferred
  /\ Apply(ComponentEngine_dispatchEvent(Cur, event, data),
           Op("dispatchEvent", "", event, data, AllTrue))

CallComponentAddEventListener(c, event, l) ==
  /\ ListenerCount < MaxListeners
  /\ Apply(Component_addEventListener(Cur, c, event, l),
           Op("Component.addEventListener", c, event, l, AllTrue))

CallAddAction(c, name, cb) ==
  /\ Len(actions[c][name]) < MaxCallbacks
  /\ Apply(Component_addAction(Cur, c, name, cb), Op("addAction", c, name, cb, AllTrue))

CallRemoveAction(c, name, cb) ==
  /\ c \in Comps
  /\ \E key \in GlobalEventKeys :
       Apply(Component_removeAction(Cur, c, name, cb, key),
             Op("removeAction", c, name, cb, AllTrue))

CallExecuteAction(c, name) ==
  /\ c \in Comps
  /\ Apply(Component_executeAction(Cur, c, name), Op("executeAction", c, name, "", AllTrue))

\* a click (or, with data-trigger="change", a change) on an element with data-action=name
DomEvent(type, name) ==
  /\ IsDomEvent(type)
  /\ Apply(FireHandlers(Cur, name, bodyHandlers), Op(type, "", name, "", AllTrue))

AppComponentCount ==
  Len(app.components) + Len(app.uninitComponents) + Len(app.inactiveComponents)

OnCount ==
  LET lens == [x \in Observables \X Events |-> Len(app._eventCallbacks[x[1]][x[2]])]
      RECURSIVE Sum(_)
      Sum(S) == IF S = {} THEN 0 ELSE LET x == CHOOSE y \in S : TRUE IN lens[x] + Sum(S \ {x})
  IN Sum(Observables \X Events)

\* an init() that throws leaves uninitComponents as it was, so the next
\* init() pushes the components before the throwing one again
CallApplicationInit(gm) ==
  /\ Len(app.components) + Len(app.inactiveComponents) < MaxAppComponents
  /\ AppApply(Application_init(AppCur, gm), Op("Application.init", "", "", BoolStr(gm), AllTrue))

CallApplicationReset ==
  /\ AppComponentCount > 0
  /\ AppApply(Application_reset(AppCur), Op("Application.reset", "", "", "", AllTrue))

CallApplicationAddComponent(c, gm) ==
  /\ AppComponentCount < MaxAppComponents
  /\ AppApply(Application_addComponent(AppCur, c, gm),
              Op("Application.addComponent", c, "", BoolStr(gm), AllTrue))

CallApplicationComponent(c, gm) ==
  /\ AppComponentCount < MaxAppComponents
  /\ AppApply(Application_component(AppCur, c, gm),
              Op("Application.component", c, "", BoolStr(gm), AllTrue))

CallApplicationGetComponent(name) ==
  /\ name \in AppNames
  /\ AppApply(Application_getComponent(AppCur, name),
              Op("Application.getComponent", "", name, "", AllTrue))

CallOn(o, event, cb) ==
  /\ OnCount < MaxOn
  /\ AppApply(Observable_on(AppCur, o, event, cb), Op("on", o, event, cb, AllTrue))

CallOff(o, event, cb) ==
  /\ o \in Observables
  /\ AppApply(Observable_off(AppCur, o, event, cb), Op("off", o, event, cb, AllTrue))

CallTrigger(o, event, data) ==
  /\ o \in Observables
  /\ AppApply(Observable_trigger(AppCur, o, event, data), Op("trigger", o, event, data, AllTrue))

\* guard results that vary only for the components a specification uses
GuardResultsFor(S) == {g \in GuardResults : \A c \in Comps \ S : g[c]}

(***************************************************************************)
(* Registration and the lifecycle: Foo, Bar (with Sub), Bar2 and N7 are    *)
(* added to the engine, initialized, enabled, disabled and removed; the    *)
(* page is clicked.                                                        *)
(***************************************************************************)
LifecycleRoots == {"Foo", "Bar", "Bar2", "N7"}
LifecycleGuards == GuardResultsFor({"Foo", "Bar", "Sub", "Bar2", "N7"})

NextLifecycle ==
  \/ \E g \in LifecycleGuards : CallInit(g)
  \/ \E c \in LifecycleRoots, g \in LifecycleGuards : CallAddComponent(c, g)
  \/ \E n \in Names, g \in LifecycleGuards : CallEnableComponent(n, g)
  \/ \E n \in Names : CallDisableComponent(n)
  \/ \E n \in Names : CallRemoveComponent(n)
  \/ \E t \in {"click", "change"} : DomEvent(t, "save")

SpecLifecycle == Init /\ [][NextLifecycle]_vars

(***************************************************************************)
(* The event bus: Bar (with Sub) is added and initialized; the page and    *)
(* the two components register listeners and dispatch events before and    *)
(* after init(); Bar is disabled.                                          *)
(***************************************************************************)
EventGuards == GuardResultsFor({"Bar", "Sub"})

NextEvents ==
  \/ \E g \in EventGuards : CallInit(g)
  \/ CallAddComponent("Bar", AllTrue)
  \/ CallDisableComponent("Bar")
  \/ \E e \in Events, l \in Listeners : CallAddEventListener(e, l)
  \/ \E e \in Events, l \in Listeners : CallComponentAddEventListener(Registrar(l), e, l)
  \/ \E e \in Events, d \in Data : CallDispatchEvent(e, d)

SpecEvents == Init /\ [][NextEvents]_vars

(***************************************************************************)
(* Actions: Bar (with Sub) is added and initialized; callbacks are added   *)
(* to Bar and Sub; actions are executed directly and through the page.     *)
(***************************************************************************)
NextActions ==
  \/ CallInit(AllTrue)
  \/ CallAddComponent("Bar", AllTrue)
  \/ \E n \in ActionNames, cb \in Callbacks : CallAddAction("Bar", n, cb)
  \/ \E cb \in Callbacks : CallAddAction("Sub", "save", cb)
  \/ \E n \in ActionNames, cb \in Callbacks : CallRemoveAction("Bar", n, cb)
  \/ \E n \in ActionNames : CallExecuteAction("Bar", n)
  \/ \E t \in {"click", "change"}, n \in ActionNames : DomEvent(t, n)

SpecActions == Init /\ [][NextActions]_vars

(***************************************************************************)
(* Listeners that change the list they are called from: the page registers *)
(* plain and self-removing listeners, removes listeners, initializes the   *)
(* engine and dispatches events.                                           *)
(***************************************************************************)
ReentrantListeners == {"l1", "l2"} \cup SelfRemoving

NextReentrant ==
  \/ CallInit(AllTrue)
  \/ \E e \in Events, l \in ReentrantListeners : CallAddEventListener(e, l)
  \/ \E e \in Events, l \in ReentrantListeners : CallRemoveEventListener(e, l)
  \/ \E e \in Events, d \in Data : CallDispatchEvent(e, d)

SpecReentrant == Init /\ [][NextReentrant]_vars

(***************************************************************************)
(* Actions of components that are not enabled: Opt, whose "save" action is *)
(* a function passed in its options, and Bar are added, initialized with   *)
(* Opt's guard accepting or rejecting, enabled and disabled; the page is   *)
(* clicked and actions are executed directly.                              *)
(***************************************************************************)
OptionActionGuards == GuardResultsFor({"Opt"})

NextOptionActions ==
  \/ \E g \in OptionActionGuards : CallInit(g)
  \/ \E c \in {"Opt", "Bar"}, g \in OptionActionGuards : CallAddComponent(c, g)
  \/ \E g \in OptionActionGuards : CallEnableComponent("Opt", g)
  \/ CallDisableComponent("Opt")
  \/ \E cb \in Callbacks : CallAddAction("Opt", "save", cb)
  \/ CallExecuteAction("Opt", "save")
  \/ \E t \in {"click", "change"}, n \in ActionNames : DomEvent(t, n)

SpecOptionActions == Init /\ [][NextOptionActions]_vars

(***************************************************************************)
(* Events dispatched from init callbacks: Pub, whose init callback         *)
(* dispatches "ready", and Bar (with Sub) are added in either order; the   *)
(* page registers listeners, dispatches events and initializes the engine. *)
(***************************************************************************)
NextInitOrder ==
  \/ \E g \in EventGuards : CallInit(g)
  \/ \E c \in {"Pub", "Bar"} : CallAddComponent(c, AllTrue)
  \/ \E l \in {"l1", "l2"} : CallAddEventListener("ready", l)
  \/ \E d \in Data : CallDispatchEvent("ready", d)

SpecInitOrder == Init /\ [][NextInitOrder]_vars

(***************************************************************************)
(* The Application variant: components are added (before and after init),  *)
(* the application is initialized and reset, components are looked up;     *)
(* callbacks are registered on Menu and on the application, taken off, and *)
(* events are triggered on either.                                         *)
(***************************************************************************)
NextApplication ==
  \/ \E gm \in BOOLEAN : CallApplicationInit(gm)
  \/ CallApplicationReset
  \/ \E c \in AppComps, gm \in BOOLEAN : CallApplicationAddComponent(c, gm)
  \/ \E gm \in BOOLEAN : CallApplicationComponent("Menu", gm)
  \/ \E n \in {"Menu", "Tabs", "Nope"} : CallApplicationGetComponent(n)
  \/ \E o \in {"Menu", "app"}, cb \in Callbacks : CallOn(o, "ready", cb)
  \/ \E o \in {"Menu", "app"}, cb \in Callbacks : CallOff(o, "ready", cb)
  \/ \E o \in {"Menu", "app"}, d \in Data : CallTrigger(o, "ready", d)

SpecApplication == Init /\ [][NextApplication]_vars

(***************************************************************************)
(* Properties                                                              *)
(***************************************************************************)
RegisteredNow == {components[i] : i \in 1..Len(components)}

\* the calls of kind k in a trace, in order
CallsOf(tr, k) == SelectSeq(tr, LAMBDA x : x.k = k)

\* how often callback kind k of component (or listener) c occurs in a trace
Count(tr, k, c) == Cardinality({i \in 1..Len(tr) : tr[i].k = k /\ tr[i].c = c})

RECURSIVE ExpectedFlush(_, _)
\* what a FIFO flush of queue q delivers: for each queued event in turn, one
\* call of every listener registered under its name, with the queued data
ExpectedFlush(q, ls) ==
  IF q = <<>> THEN <<>>
  ELSE [i \in 1..Len(ls[Head(q).event]) |->
          Call("listener", ls[Head(q).event][i], Head(q).event, Head(q).data)]
       \o ExpectedFlush(Tail(q), ls)

\* C1: an event dispatched before init() is not delivered by dispatchEvent
\* but queued; the init() call then delivers every queued event, in the
\* order of the dispatchEvent calls, exactly once to every listener that was
\* registered for its name, with its original data, and leaves nothing
\* queued for later.
C1_DeferredDelivery ==
  [][/\ (op'.name = "dispatchEvent" /\ ~initialized) =>
          /\ trace' = <<>>
          /\ deferredEvents' = Append(deferredEvents, [event |-> op'.a, data |-> op'.d])
     /\ op'.name = "init" =>
          /\ CallsOf(trace', "listener") = ExpectedFlush(deferredEvents, eventListeners)
          /\ deferredEvents' = <<>>
          /\ initialized']_vars

\* C1 witness: init() has delivered two queued events to one listener, the
\* one with data d2 queued and delivered before the one with data d1
C1_Witness ==
  /\ op.name = "init"
  /\ \E i, j \in 1..Len(trace) :
       /\ i < j
       /\ trace[i].k = "listener" /\ trace[j].k = "listener"
       /\ trace[i].c = trace[j].c
       /\ trace[i].d = "d2" /\ trace[j].d = "d1"

\* every listener the engine holds was registered once, by a component
ComponentListenersOnly ==
  /\ \A e \in Events : \A i \in 1..Len(eventListeners[e]) : tag[eventListeners[e][i]] # Undefined
  /\ \A l \in Listeners :
       Cardinality({<<e, i>> \in Events \X (1..MaxListeners) :
                      i <= Len(eventListeners[e]) /\ eventListeners[e][i] = l}) <= 1

\* C2 (as claimed): after disableComponent(C) on an enabled component C no
\* listener list holds a listener tagged with C, and the listeners of the
\* other components are all still there, in order (for listeners that were
\* each registered once through Component.addEventListener).
C2_Claim ==
  [][(op'.name = "disableComponent" /\ enabled[op'.c] /\ ComponentListenersOnly) =>
       \A e \in Events :
         /\ \A i \in 1..Len(eventListeners'[e]) : tag'[eventListeners'[e][i]] # op'.c
         /\ SelectSeq(eventListeners'[e], LAMBDA l : tag[l] # op'.c)
              = SelectSeq(eventListeners[e], LAMBDA l : tag[l] # op'.c)]_vars

\* C3 (as claimed): after removeComponent(C) no component is registered under
\* C's name (getComponent returns undefined, the name can be registered
\* again) and C has no engine.
C3_Claim ==
  [][op'.name = "removeComponent" =>
       /\ \A i \in 1..Len(components') : Name(components'[i]) # Name(op'.c)
       /\ ~engine'[op'.c]
       /\ ~enabled'[op'.c]]_vars

\* C4: addComponent of a component whose name is already registered changes
\* nothing: the mapping is the same (getComponent still returns the first
\* component), no guard and no init callback is called, no flag changes, and
\* the rejected component is not enabled; before and after init() alike.
C4_DuplicateRejected ==
  [][(op'.name = "addComponent"
        /\ \E i \in 1..Len(components) : Name(components[i]) = Name(op'.c)) =>
       /\ components' = components
       /\ trace' = <<>>
       /\ enabled' = enabled /\ engine' = engine /\ parent' = parent
       /\ initialized' = initialized
       /\ (op'.c \notin RegisteredNow => ~enabled'[op'.c])]_vars

\* C4 witness: on an initialized engine holding Bar, the component Bar2
\* (also named "Bar", its guard returning true) was passed to addComponent
\* and is not registered
C4_Witness ==
  /\ op.name = "addComponent" /\ op.c = "Bar2" /\ op.g["Bar2"]
  /\ initialized
  /\ "Bar" \in RegisteredNow /\ "Bar2" \notin RegisteredNow

\* C5 (as claimed): with callbacks under action name n on root Bar and on its
\* subcomponent Sub, one firing of n (one DOM event with the dispatcher
\* installed once, or one Bar.executeAction(n)) calls Bar's callbacks once
\* each in registration order, then Sub's.
C5_Claim ==
  [][(/\ op'.name = "executeAction" \/ (IsDomEvent(op'.name) /\ bodyHandlers = 1)
      /\ "Bar" \in RegisteredNow
      /\ actions["Bar"][op'.a] # <<>>
      /\ actions["Sub"][op'.a] # <<>>) =>
       CallsOf(trace', "action")
         = [i \in 1..Len(actions["Bar"][op'.a]) |->
              Call("action", "Bar", op'.a, actions["Bar"][op'.a][i])]
           \o [i \in 1..Len(actions["Sub"][op'.a]) |->
              Call("action", "Sub", op'.a, actions["Sub"][op'.a][i])]]_vars

\* C6: init() does not activate a registered component whose selector
\* matches no element, whatever its guard returns: its init callback is not
\* called and it is not enabled by the call.  With Foo (selector matching
\* nothing) and Bar (no selector, the default guard) registered and not yet
\* activated, after init() Foo is not enabled and Bar is.
C6_NoMatchStaysInactive ==
  [][op'.name = "init" =>
       /\ \A c \in RegisteredNow :
            (HasSelector(c) /\ Matches(c) = 0) =>
              /\ Count(trace', "init", c) = 0
              /\ (~enabled[c] => ~enabled'[c])
       /\ ({"Foo", "Bar"} \subseteq RegisteredNow /\ ~enabled["Foo"]) =>
            (~enabled'["Foo"] /\ enabled'["Bar"])]_vars

\* C6 witness: init() has run with Foo and Bar registered, Foo's guard
\* returning true; Foo is not enabled and Bar is
C6_Witness ==
  /\ op.name = "init" /\ op.g["Foo"]
  /\ {"Foo", "Bar"} \subseteq RegisteredNow
  /\ ~enabled["Foo"] /\ enabled["Bar"]
  /\ Count(trace, "init", "Bar") = 1

\* C7: one call of init() calls the init callback of every registered
\* component that has no selector and whose guard returns true exactly once,
\* and leaves the component enabled.
C7_InitActivatesOnce ==
  [][op'.name = "init" =>
       \A c \in RegisteredNow :
         (~HasSelector(c) /\ Component_guard(c, op'.g)) =>
           /\ Count(trace', "init", c) = 1
           /\ enabled'[c]]_vars

\* C7 witness: init() has run with N7 (no selector, own guard returning
\* true) and Bar registered; each was initialized once and is enabled
C7_Witness ==
  /\ op.name = "init" /\ op.g["N7"]
  /\ {"N7", "Bar"} \subseteq RegisteredNow
  /\ Count(trace, "init", "N7") = 1 /\ enabled["N7"]
  /\ Count(trace, "init", "Bar") = 1 /\ enabled["Bar"]

\* the Activation Protocol's two checks for component c under guard results g
ProtocolAllows(c, g) == (HasSelector(c) => Matches(c) > 0) /\ Component_guard(c, g)

\* C8 (as claimed): addComponent of a new name on an initialized engine
\* registers the component and activates it only if its selector, when
\* declared, matches an element and its guard returns true; on an engine
\* that is not initialized it calls neither guard nor init and the component
\* stays inactive.
C8_Claim ==
  [][(op'.name = "addComponent"
        /\ \A i \in 1..Len(components) : Name(components[i]) # Name(op'.c)) =>
       /\ op'.c \in {components'[i] : i \in 1..Len(components')}
       /\ initialized =>
            ((enabled'[op'.c] \/ Count(trace', "init", op'.c) > 0)
               => ProtocolAllows(op'.c, op'.g))
       /\ ~initialized => (trace' = <<>> /\ ~enabled'[op'.c])]_vars

\* C9 (as claimed): enableComponent(C) on a registered component that is not
\* enabled calls C's init callback and enables C only if C's guard returns
\* true and C's selector, when declared, matches an element; on an enabled
\* component it does nothing.
C9_Claim ==
  [][op'.name = "enableComponent" =>
       IF enabled[op'.c]
       THEN trace' = <<>> /\ enabled' = enabled /\ engine' = engine
       ELSE (enabled'[op'.c] \/ Count(trace', "init", op'.c) > 0)
              => ProtocolAllows(op'.c, op'.g)]_vars

\* C10 (as claimed): whatever calls were made, the click/change pair is
\* installed on the document at most once, and one DOM event on an action
\* element calls executeAction of every root component exactly once.
C10_Claim ==
  /\ bodyHandlers <= 1
  /\ (IsDomEvent(op.name) /\ initialized) =>
       \A c \in RegisteredNow : Count(trace, "executeAction", c) = 1

\* C11 (as claimed): in every reachable state a component's elements are set
\* if and only if the component is enabled and either declares no selector or
\* its selector matches an element; a component that is not enabled has no
\* elements set.
C11_Claim ==
  \A c \in Comps :
    elements[c] <=> (enabled[c] /\ (~HasSelector(c) \/ Matches(c) > 0))

\* C12: the queue of deferred events is non-empty only while the engine is
\* not initialized; the step that sets initialized is an init() call that
\* delivers the queue in enqueue order and empties it; initialized never goes
\* back to false, and a later init() call delivers nothing again.
C12_QueueDrainedOnce ==
  [][/\ initialized => initialized'
     /\ initialized' => deferredEvents' = <<>>
     /\ (~initialized /\ initialized') =>
          /\ op'.name = "init"
          /\ CallsOf(trace', "listener") = ExpectedFlush(deferredEvents, eventListeners)
     /\ (initialized /\ op'.name = "init") => CallsOf(trace', "listener") = <<>>]_vars

\* C12 witness: the first init() has delivered a queued "other" and then a
\* queued "ready" event, and the queue is empty
C12_Witness ==
  /\ op.name = "init" /\ bodyHandlers = 1 /\ initialized
  /\ deferredEvents = <<>>
  /\ Len(CallsOf(trace, "listener")) = 2
  /\ CallsOf(trace, "listener")[1].a = "other"
  /\ CallsOf(trace, "listener")[2].a = "ready"

\* C13 (as claimed): on an initialized engine dispatchEvent(E, d) calls every
\* listener registered for E at the moment of the call once, in registration
\* order, with d, also when a listener takes itself off the list while it
\* runs: the listeners after it are not skipped.
C13_Claim ==
  [][(op'.name = "dispatchEvent" /\ initialized) =>
       CallsOf(trace', "listener")
         = [i \in 1..Len(eventListeners[op'.a]) |->
              Call("listener", eventListeners[op'.a][i], op'.a, op'.d)]]_vars

\* C14 (as claimed): removeAction(n, cb) after addAction(n, cb) takes cb off
\* the callback list of n; removeAction(n, cb) when n has no callback list
\* changes nothing.
C14_Claim ==
  [][op'.name = "removeAction" =>
       IF IndexOf(actions[op'.c][op'.a], op'.d) > 0
       THEN actions' = [actions EXCEPT
                          ![op'.c][op'.a] = RemoveAt(@, IndexOf(@, op'.d))]
       ELSE actions' = actions]_vars

\* the root components whose init callback a trace holds, in the order of the calls
InitOrder(tr, roots) ==
  LET calls == SelectSeq(tr, LAMBDA x : x.k = "init" /\ x.c \in roots)
  IN [i \in 1..Len(calls) |-> calls[i].c]

\* C17 (as claimed): init() attempts the activation of the registered
\* components in the order of their addComponent calls, whatever their names:
\* the init callbacks of the components it activates run in that order, and a
\* component that is skipped does not keep a later one from being activated.
C17_Claim ==
  [][op'.name = "init" =>
       /\ InitOrder(trace', RegisteredNow)
            = SelectSeq(components, LAMBDA c : Count(trace', "init", c) > 0)
       /\ \A c \in RegisteredNow :
            (~HasSelector(c) /\ Component_guard(c, op'.g)) => Count(trace', "init", c) = 1]_vars

\* C19 (as claimed): a DOM event on an action element invokes an action
\* callback of a component only while that component is enabled: none of a
\* component that was never activated, was rejected by its guard or has been
\* disabled.
C19_Claim ==
  [][IsDomEvent(op'.name) =>
       \A i \in 1..Len(trace') : trace'[i].k = "action" => enabled[trace'[i].c]]_vars

\* the positions of the calls of the kinds in ks in a trace
PositionsOf(tr, ks) == {i \in 1..Len(tr) : tr[i].k \in ks}

\* C18 (as claimed): in an init() call no listener is called before every
\* registered component has had its activation attempt, also for events that
\* init callbacks dispatch during the pass; the call delivers all buffered
\* events, and installs the document's action handlers only after that.
C18_Claim ==
  [][op'.name = "init" =>
       /\ \A i \in PositionsOf(trace', {"listener"}) :
            /\ \A j \in PositionsOf(trace', {"guard", "init"}) : j < i
            /\ \A j \in PositionsOf(trace', {"on"}) : i < j
       /\ PositionsOf(trace', {"on"}) = {Len(trace')}
       /\ deferredEvents' = <<>>]_vars

\* C15 (as claimed): addComponent or component(name, opts), called after
\* Application.init() has completed, with a component whose selector matches
\* an element and whose guard returns true, calls the component's init
\* callback once and leaves the component at the end of Application.components.
C15_Claim ==
  [][(/\ op'.name \in {"Application.addComponent", "Application.component"}
      /\ op.name = "Application.init" /\ ~Thrown(trace)
      /\ AppHasSelector(op'.c) /\ AppMatches(op'.c) > 0
      /\ AppComponent_guard(op'.c, op'.d = "true")) =>
       /\ Count(trace', "init", op'.c) = 1
       /\ app'.components = Append(app.components, op'.c)]_vars

\* what the claim has getComponent(name) return: the first active component of
\* that name, or undefined
FirstNamed(list, name) ==
  IF \E i \in 1..Len(list) : AppName(list[i]) = name
  THEN list[CHOOSE i \in 1..Len(list) :
              AppName(list[i]) = name /\ \A j \in 1..(i - 1) : AppName(list[j]) # name]
  ELSE Undefined

\* C16 (as claimed): Application.getComponent(name) returns the active
\* component of that name, and returns undefined, without throwing, when there
\* is none, whether or not other components are active.
C16_Claim ==
  [][op'.name = "Application.getComponent" =>
       trace' = <<Call("return", FirstNamed(app.components, op'.a), op'.a, "")>>]_vars

\* the calls trigger(event, data) on object o owes the callbacks o holds for event
OwnCalls(o, event, data) ==
  [i \in 1..Len(app._eventCallbacks[o][event]) |->
     [k |-> "callback", c |-> app._eventCallbacks[o][event][i], a |-> event,
      d |-> data, o |-> o]]

\* C20: trigger(E, d) on a component that init() has initialized (it is active
\* and its parent is the application) calls the component's callbacks for E
\* once each in registration order, then the application's callbacks for E
\* once each in registration order, all with d, and nothing else; off(E, cb)
\* with a callback that is not registered for E changes nothing.
C20_TriggerForwards ==
  [][/\ (/\ op'.name = "trigger" /\ op'.c \in AppComps
         /\ \E i \in 1..Len(app.components) : app.components[i] = op'.c
         /\ app.parent[op'.c]) =>
          trace' = OwnCalls(op'.c, op'.a, op'.d) \o OwnCalls("app", op'.a, op'.d)
     /\ (op'.name = "off" /\ IndexOf(app._eventCallbacks[op'.c][op'.a], op'.d) = 0) =>
          app' = app]_vars

\* C20 witness: trigger on the initialized Menu has called Menu's callback and
\* then the application's
C20_Witness ==
  /\ op.name = "trigger" /\ op.c = "Menu"
  /\ \E i \in 1..Len(app.components) : app.components[i] = "Menu"
  /\ Len(trace) = 2
  /\ trace[1].o = "Menu" /\ trace[2].o = "app"

\* C21 (as claimed): in every method call a component's init callback is
\* called only if the component is not enabled, and then once; its remove
\* callback only if the component is enabled, and then once.  So init and
\* remove alternate for every component, root or subcomponent.
C21_Claim ==
  [][\A c \in Comps :
       /\ Count(trace', "init", c) <= (IF enabled[c] THEN 0 ELSE 1)
       /\ Count(trace', "remove", c) <= (IF enabled[c] THEN 1 ELSE 0)]_vars

\* C22 (as claimed): removeEventListener(E, cb) leaves every listener list
\* unchanged when E's list does not hold cb; when it does, E's list loses one
\* occurrence of cb, the other listeners keep their order, and the lists of
\* the other events are unchanged.
C22_Claim ==
  [][op'.name = "removeEventListener" =>
       IF IndexOf(eventListeners[op'.a], op'.d) = 0
       THEN eventListeners' = eventListeners
       ELSE \E i \in 1..Len(eventListeners[op'.a]) :
              /\ eventListeners[op'.a][i] = op'.d
              /\ eventListeners' =
                   [eventListeners EXCEPT ![op'.a] = RemoveAt(@, i)]]_vars

\* how often component c occurs in the three lists of application record a
Held(a, c) ==
  LET In(list) == Cardinality({i \in 1..Len(list) : list[i] = c})
  IN In(a.uninitComponents) + In(a.components) + In(a.inactiveComponents)

\* C23 (as claimed): while no call throws (no component without a selector is
\* added), no call of the Application loses or duplicates a component: an
\* addComponent or component call adds one occurrence of its component to the
\* three lists, init() and reset() keep every component's number of
\* occurrences; after init() uninitComponents is empty, after reset()
\* components and inactiveComponents are.
C23_Claim ==
  [][(/\ op'.name \in {"Application.addComponent", "Application.component",
                       "Application.init", "Application.reset"}
      /\ ~Thrown(trace')
      /\ Held(app, "Bare") = 0 /\ op'.c # "Bare") =>
       /\ \A c \in AppComps :
            Held(app', c) =
              Held(app, c)
                + (IF op'.name \in {"Application.addComponent", "Application.component"}
                      /\ op'.c = c THEN 1 ELSE 0)
       /\ op'.name = "Application.init" => app'.uninitComponents = <<>>
       /\ op'.name = "Application.reset" =>
            (app'.components = <<>> /\ app'.inactiveComponents = <<>>)]_vars

=============================================================================
